---- MODULE Spec2Model ----
(***************************************************************************)
(* every-mentor ai api (src/ai/main.py): the multi-variant OCR selector,   *)
(* the Tesseract discovery, the certificate normalizers, the reading of    *)
(* the model's JSON reply, the subject lists attached from the taxonomy,   *)
(* the dependent-insurance flag and the endpoints that run them; the       *)
(* subject-inference cache of the certificate resolver is described from   *)
(* spec.md.                                                                *)
(*                                                                         *)
(* Strings are sequences of Unicode code points, so that strip, lower,     *)
(* startswith and replace are computed character by character.  Python's   *)
(* None is the sentinel NoneStr for strings and NonePath for paths.        *)
(***************************************************************************)
EXTENDS Integers, Sequences, FiniteSets, TLC

VARIABLES
    \* ---- one request to an OCR endpoint ----
    endpoint,        \* which handler runs
    file,            \* the UploadFile: [content_type, bytes]
    env,             \* the process environment read by _detect_tesseract_cmd
    detected,        \* module-level _tesseract_cmd (main.py:114)
    pc,              \* position of the handler
    ocr_file,        \* the file object _ocr_extract_text_from_image was called with
    decoded,         \* Image.open has been attempted on the bytes
    base,            \* the image after the best-effort EXIF transpose
    build_ok,        \* which of exif / light / binarized steps did not raise
    variants,        \* list of (name, image)
    vi,              \* index of the next variant of the for loop
    best_name, best_text, best_score, candidate_meta,
    engine_out,      \* per engine invocation: [name, text]
    ocr,             \* the OCRResponse the OCR helper returned
    llm_calls,       \* number of calls of _lmstudio_chat_completions
    result,          \* what the handler returned or raised
    \* ---- the uploads and texts of a request, the chat completion ----
    files,           \* the uploads in the order read: insurance_file, then certificate_files
    file_idx,        \* index in `files` of the upload being read
    ocr_done,        \* indices of the uploads whose text extraction has returned
    insurance_text,  \* insurance_text (body.text for make_curriculum)
    cert_texts,      \* cert_texts / body.certificate_texts
    certificate_hints,
    llm_reply,       \* what the chat completion answered or how it failed
    _CERT_SUBJECT_MAP,
    served,          \* number of requests the process has finished before this one
    \* ---- one call of a pure function ----
    fn_pc, fn_arg, fn_out, fn_out2,
    \* ---- the subject inference of the certificate resolver ----
    llm_fallback,    \* configuration: the LLM fallback is enabled
    infer_cache,     \* the process-wide cache: compacted name -> subject line
    infer_pc,        \* per call of inferSubjectsForUnknown: its position
    infer_name,      \* per call: certificateName
    infer_line,      \* per call: the line it returned
    infer_issued,    \* per call: it has issued a prompt to the LLM
    infer_before     \* per call: the calls that had returned when it started

ocr_vars == <<endpoint, file, pc, ocr_file, decoded, base, build_ok, variants, vi,
              best_name, best_text, best_score, candidate_meta, engine_out,
              ocr, llm_calls, result>>
fn_vars == <<fn_pc, fn_arg, fn_out, fn_out2>>
req_vars == <<files, file_idx, ocr_done, insurance_text, cert_texts, certificate_hints,
              llm_reply, _CERT_SUBJECT_MAP, served>>
infer_vars == <<llm_fallback, infer_cache, infer_pc, infer_name, infer_line, infer_issued,
                infer_before>>
vars == <<ocr_vars, env, detected, fn_vars, req_vars, infer_vars>>

----------------------------------------------------------------------------
(* Bounds of the model *)

\* longest text the OCR engine returns for one variant
MaxTextLen == 2
\* longest text handed to _score_text on its own
MaxScoreLen == 3
\* longest certificate name handed to _normalize_cert_name
MaxNameLen == 4
\* longest free OCR blob handed to _normalize_certificate_ocr_text
MaxBlobLen == 3
\* longest run of whitespace the OCR puts inside a certificate title
MaxGap == 2
\* most certificate files of one request
MaxCertFiles == 1
\* most whitespace characters inside one certification name of the model
MaxInserted == 1
\* longest reply of the model, in tokens
MaxReplyLen == 4
\* most requests the process serves one after the other
MaxRequests == 2
\* most calls of inferSubjectsForUnknown in one process
MaxCalls == 2
\* most pieces an insurance text handed to _is_dependent_mode is made of
MaxPieces == 3

----------------------------------------------------------------------------
(* Strings *)

NoneStr == << -1 >>

\* a version that forgets the `or ""`
OrEmptyMissing(x) == x

\* Python's `x or ""`
OrEmpty(x) == IF x = NoneStr THEN << >> ELSE x

\* all sequences over A of length at most n
RECURSIVE SeqsUpTo(_, _)
SeqsUpTo(A, n) ==
    IF n = 0 THEN { << >> }
    ELSE LET shorter == SeqsUpTo(A, n - 1)
         IN  shorter \cup { Append(s, a) : s \in { t \in shorter : Len(t) = n - 1 }, a \in A }

\* first and last code point of the Hangul syllables block, main.py:446
HangulFirst == 44032
HangulLast == 55203

IsHangul(ch) == HangulFirst <= ch /\ ch <= HangulLast

\* str.isalnum on one character (digits, ASCII letters, Hangul compatibility
\* jamo, Hangul syllables: the ranges the model's alphabets draw from)
isalnum(ch) ==
    \/ 48 <= ch /\ ch <= 57
    \/ 65 <= ch /\ ch <= 90
    \/ 97 <= ch /\ ch <= 122
    \/ 12593 <= ch /\ ch <= 12686
    \/ IsHangul(ch)

\* str.isspace on one character
isspace(ch) == ch \in {9, 10, 11, 12, 13, 28, 29, 30, 31, 32, 133, 160, 12288}

\* str.lower on one character and on a string (ASCII)
lower_ch(ch) == IF 65 <= ch /\ ch <= 90 THEN ch + 32 ELSE ch
lower(s) == [i \in DOMAIN s |-> lower_ch(s[i])]

startswith(s, p) == Len(s) >= Len(p) /\ SubSeq(s, 1, Len(p)) = p

RECURSIVE lstrip(_)
lstrip(s) == IF s # << >> /\ isspace(Head(s)) THEN lstrip(Tail(s)) ELSE s

RECURSIVE rstrip(_)
rstrip(s) ==
    IF s # << >> /\ isspace(s[Len(s)]) THEN rstrip(SubSeq(s, 1, Len(s) - 1)) ELSE s

\* str.strip()
strip(s) == rstrip(lstrip(s))

\* str.replace(a, b): non-overlapping occurrences, left to right (a non-empty)
RECURSIVE replace(_, _, _)
replace(s, a, b) ==
    IF Len(s) < Len(a) THEN s
    ELSE IF startswith(s, a) THEN b \o replace(SubSeq(s, Len(a) + 1, Len(s)), a, b)
    ELSE << Head(s) >> \o replace(Tail(s), a, b)

\* `a in s`
Contains(s, a) == \E i \in 1..(Len(s) - Len(a) + 1) : SubSeq(s, i, i + Len(a) - 1) = a

----------------------------------------------------------------------------
(* _score_text, main.py:440-454 *)

\* a bug that counts whitespace like punctuation
RECURSIVE ScoreTextSpaceAsOther(_)
ScoreTextSpaceAsOther(t) ==
    IF t = << >> THEN 0
    ELSE (IF IsHangul(Head(t)) THEN 3 ELSE IF isalnum(Head(t)) THEN 2 ELSE 1)
         + ScoreTextSpaceAsOther(Tail(t))

RECURSIVE ScoreLoop(_)
ScoreLoop(t) ==
    IF t = << >> THEN 0
    ELSE (IF IsHangul(Head(t)) THEN 3
          ELSE IF isalnum(Head(t)) THEN 2
          ELSE IF isspace(Head(t)) THEN 0
          ELSE 1)
         + ScoreLoop(Tail(t))

_score_text(t) == IF t = << >> THEN 0 ELSE ScoreLoop(t)

----------------------------------------------------------------------------
(* _normalize_cert_name, main.py:39-52 *)

\* the Hangul syllables of the replacement table, main.py:45-48
Ch_il == 51068
Ch_ring == 47553
Ch_mil == 48128
Ch_gong == 44277
Ch_yu == 50976
Ch_am == 50516
Ch_ap == 50517
Ch_san == 49328
Ch_eom == 50628
Ch_yeop == 50685
Ch_eop == 50629
\* U+0020
Ch_space == 32

\* a table whose last entry maps one misreading to another one
ReplacementsTypo ==
    << << <<Ch_il, Ch_ring>>, <<Ch_mil, Ch_ring>> >>,
       << <<Ch_gong, Ch_yu, Ch_am>>, <<Ch_gong, Ch_yu, Ch_ap>> >>,
       << <<Ch_san, Ch_eom>>, <<Ch_san, Ch_eop>> >>,
       << <<Ch_san, Ch_yeop>>, <<Ch_san, Ch_eom>> >> >>

\* the dict `replacements`, in insertion order: (a, b) pairs
replacements ==
    << << <<Ch_il, Ch_ring>>, <<Ch_mil, Ch_ring>> >>,
       << <<Ch_gong, Ch_yu, Ch_am>>, <<Ch_gong, Ch_yu, Ch_ap>> >>,
       << <<Ch_san, Ch_eom>>, <<Ch_san, Ch_eop>> >>,
       << <<Ch_san, Ch_yeop>>, <<Ch_san, Ch_eop>> >> >>

\* for a, b in replacements.items(): s = s.replace(a, b)
RECURSIVE ApplyReplacements(_, _)
ApplyReplacements(s, table) ==
    IF table = << >> THEN s
    ELSE ApplyReplacements(replace(s, Head(table)[1], Head(table)[2]), Tail(table))

_normalize_cert_name(name) ==
    LET s == strip(OrEmpty(name))
    IN  IF s = << >> THEN s ELSE ApplyReplacements(s, replacements)

----------------------------------------------------------------------------
(* _normalize_certificate_ocr_text, main.py:55-66 *)

\* the literal pieces of the two patterns and their replacements, main.py:64-65
Str_keompyuteo_eungyong == << 52980, 54504, 53552, 51025, 50857 >>
Str_ginGsa == << 44592, 45733, 49324 >>
MillingPattern == << Str_keompyuteo_eungyong, << Ch_il, Ch_ring >>, Str_ginGsa >>
MillingTitle == Str_keompyuteo_eungyong \o << Ch_mil, Ch_ring >> \o Str_ginGsa
HydraulicsPattern == << << Ch_gong, Ch_yu >>, << Ch_am >>, Str_ginGsa >>
HydraulicsTitle == << Ch_gong, Ch_yu, Ch_ap >> \o Str_ginGsa

\* the index after the run of whitespace that starts at i (`\s*`)
RECURSIVE SkipSpaces(_, _)
SkipSpaces(s, i) == IF i <= Len(s) /\ isspace(s[i]) THEN SkipSpaces(s, i + 1) ELSE i

\* a pattern lit1\s*lit2\s*...: the index after its match at i, 0 if none
RECURSIVE MatchEnd(_, _, _)
MatchEnd(s, i, pattern) ==
    LET lit == Head(pattern)
        j == i + Len(lit)
    IN  IF j - 1 <= Len(s) /\ SubSeq(s, i, j - 1) = lit
        THEN IF Tail(pattern) = << >> THEN j
             ELSE MatchEnd(s, SkipSpaces(s, j), Tail(pattern))
        ELSE 0

\* re.sub(pattern, repl, s) from index i on: leftmost non-overlapping matches
RECURSIVE SubFrom(_, _, _, _)
SubFrom(s, i, pattern, repl) ==
    IF i > Len(s) THEN << >>
    ELSE LET e == MatchEnd(s, i, pattern)
         IN  IF e # 0 THEN repl \o SubFrom(s, e, pattern, repl)
             ELSE << s[i] >> \o SubFrom(s, i + 1, pattern, repl)

re_sub(pattern, repl, s) == SubFrom(s, 1, pattern, repl)

_normalize_certificate_ocr_text(text) ==
    LET s == OrEmpty(text)
    IN  IF s = << >> THEN s
        ELSE re_sub(HydraulicsPattern, HydraulicsTitle,
                    re_sub(MillingPattern, MillingTitle, s))

----------------------------------------------------------------------------
(* _CERT_SUBJECT_MAP and the subject lists attached from it,               *)
(* main.py:28-36, 864-871, 990-997                                         *)

\* the literal of main.py:28-36, in insertion order: (name, subjects) pairs
Taxonomy ==
    << [ name |-> << 51204, 44592, 44592, 45733, 49324 >>,
         subjects |-> << << 51204, 44592, 51060, 47200 >>,
                         << 51204, 44592, 44592, 44592 >>,
                         << 51204, 44592, 49444, 48708 >> >> ],
       [ name |-> << 49373, 49328, 51088, 46041, 54868, 44592, 45733, 49324 >>,
         subjects |-> << << 44592, 44228, 50836, 49548 >>,
                         << 44277, 50517, 47, 50976, 50517 >>,
                         << 51204, 44592, 47, 51204, 51088, 32, 44592, 52488 >>,
                         << 80, 76, 67, 32, 44592, 52488 >>,
                         << 51088, 46041, 54868, 32, 49892, 47924 >> >> ],
       [ name |-> << 51204, 51088, 44592, 44592, 44592, 45733, 49324 >>,
         subjects |-> << << 51204, 51088, 54924, 47196, 32, 44592, 52488 >>,
                         << 46356, 51648, 53560, 47, 47560, 51060, 53356, 47196, 52968, 53944, 47204, 47084, 32, 44592, 52488 >>,
                         << 52769, 51221, 47, 44228, 52769 >>,
                         << 51204, 51088, 44592, 44592, 32, 49688, 47532 >> >> ],
       [ name |-> << 52980, 54504, 53552, 51025, 50857, 48128, 47553, 44592, 45733, 49324 >>,
         subjects |-> << << 46020, 47732, 32, 54644, 46021 >>,
                         << 44032, 44277, 32, 44277, 51221 >>,
                         << 44277, 44396, 47, 51208, 49325 >>,
                         << 52769, 51221 >>,
                         << 50504, 51204 >> >> ],
       [ name |-> << 51221, 48372, 52376, 47532, 44592, 45733, 49324 >>,
         subjects |-> << << 52980, 54504, 53552, 32, 44592, 52488 >>,
                         << 49548, 54532, 53944, 50920, 50612, 32, 44592, 52488 >>,
                         << 45936, 51060, 53552, 47, 68, 66, 32, 44592, 52488 >>,
                         << 45348, 53944, 50892, 53356, 32, 44592, 52488 >>,
                         << 47928, 51228, 54400, 51060 >> >> ],
       [ name |-> << 44277, 50976, 50517, 44592, 45733, 49324 >>,
         subjects |-> << << 44277, 50517, 32, 44592, 52488 >>,
                         << 50976, 50517, 32, 44592, 52488 >>,
                         << 54924, 47196, 32, 54644, 46021 >>,
                         << 44592, 44592, 47, 48184, 48652 >>,
                         << 50504, 51204 >> >> ] >>

CanonicalNames == { Taxonomy[k].name : k \in DOMAIN Taxonomy }

\* str.replace(" ", "")
NoSpaces(s) == replace(s, << Ch_space >>, << >>)

\* a test that overwrites the list the model gave
AttachesAlways(c, known) ==
    NoSpaces(_normalize_cert_name(c.name)) = NoSpaces(known.name)

\* `norm == known.replace(" ", "") and not c.subjects`, main.py:870
Attaches(c, known) ==
    /\ NoSpaces(_normalize_cert_name(c.name)) = NoSpaces(known.name)
    /\ c.subjects = << >>

\* for known, subjects in _CERT_SUBJECT_MAP.items(): ..., main.py:869-871
RECURSIVE AttachSubjects(_, _)
AttachSubjects(c, map) ==
    IF map = << >> THEN c
    ELSE AttachSubjects(IF Attaches(c, Head(map))
                        THEN [ c EXCEPT !.subjects = Head(map).subjects ]
                        ELSE c,
                        Tail(map))

\* for c in teachable_certs: ..., main.py:867-871
ShapeCerts(certs, map) == [ i \in DOMAIN certs |-> AttachSubjects(certs[i], map) ]

\* a loop that stores the model's list under the name it matches
MapStoresModelLists(certs, map) ==
    [ k \in DOMAIN map |->
        LET hits == { i \in DOMAIN certs :
                        certs[i].subjects # << >> /\ AttachesAlways(certs[i], map[k]) }
        IN  IF hits = {} THEN map[k]
            ELSE [ map[k] EXCEPT !.subjects = certs[CHOOSE i \in hits : TRUE].subjects ] ]

\* the loop reads _CERT_SUBJECT_MAP and assigns to c.subjects only
MapAfterShaping(certs, map) == map

----------------------------------------------------------------------------
(* _extract_first_json_object, main.py:344-361.  A reply of the model is   *)
(* a sequence of tokens: braces, brackets, a member key with its colon, a  *)
(* scalar, and a word that is no JSON; separators are left out.            *)

JsonTokens == { "{", "}", "[", "]", "k:", "1", "x" }

RECURSIVE IsJsonValue(_)
RECURSIVE IsValueList(_)
RECURSIVE IsMemberList(_)

\* elements of an array
IsValueList(s) ==
    \/ s = << >>
    \/ \E k \in 1..Len(s) :
          /\ IsJsonValue(SubSeq(s, 1, k))
          /\ IsValueList(SubSeq(s, k + 1, Len(s)))

\* members of an object
IsMemberList(s) ==
    \/ s = << >>
    \/ /\ Head(s) = "k:"
       /\ \E k \in 2..Len(s) :
             /\ IsJsonValue(SubSeq(s, 2, k))
             /\ IsMemberList(SubSeq(s, k + 1, Len(s)))

\* isinstance(json.loads(s), dict)
IsJsonObject(s) ==
    /\ Len(s) >= 2
    /\ s[1] = "{"
    /\ s[Len(s)] = "}"
    /\ IsMemberList(SubSeq(s, 2, Len(s) - 1))

\* json.loads(s) does not raise
IsJsonValue(s) ==
    \/ s = << "1" >>
    \/ /\ Len(s) >= 2
       /\ s[1] = "["
       /\ s[Len(s)] = "]"
       /\ IsValueList(SubSeq(s, 2, Len(s) - 1))
    \/ IsJsonObject(s)

\* re.search(r"\{[\s\S]*\}", s): from the first "{" to the last "}" after it
BraceSpan(s) ==
    LET opens == { i \in DOMAIN s : s[i] = "{" }
    IN  IF opens = {} THEN << >>
        ELSE LET i0 == CHOOSE i \in opens : \A j \in opens : i <= j
                 closes == { j \in DOMAIN s : s[j] = "}" /\ j > i0 }
             IN  IF closes = {} THEN << >>
                 ELSE SubSeq(s, i0, CHOOSE j \in closes : \A k \in closes : k <= j)

\* a parser without the fallback search
ExtractWholeReplyOnly(text) ==
    IF IsJsonObject(text) THEN [ ok |-> TRUE, obj |-> text, error |-> "" ]
    ELSE [ ok |-> FALSE, obj |-> << >>, error |-> "No JSON object found" ]

_extract_first_json_object(text) ==
    IF IsJsonValue(text) /\ IsJsonObject(text)
    THEN [ ok |-> TRUE, obj |-> text, error |-> "" ]
    ELSE LET m == BraceSpan(text)
         IN  IF m = << >>
             THEN [ ok |-> FALSE, obj |-> << >>, error |-> "No JSON object found" ]
             ELSE IF ~IsJsonValue(m)
             THEN [ ok |-> FALSE, obj |-> << >>, error |-> "JSONDecodeError" ]
             ELSE IF ~IsJsonObject(m)
             THEN [ ok |-> FALSE, obj |-> << >>, error |-> "JSON is not an object" ]
             ELSE [ ok |-> TRUE, obj |-> m, error |-> "" ]

----------------------------------------------------------------------------
(* _detect_tesseract_cmd, main.py:91-111.  A path is the sequence of its    *)
(* components; None is NonePath and the empty string is EmptyPath.          *)

NonePath == << >>
EmptyPath == << "" >>

\* truthiness of an optional string
Truthy(p) == p # NonePath /\ p # EmptyPath

\* the two literal roots of main.py:102
LiteralRoots == << << "C:\\Program Files" >>, << "C:\\Program Files (x86)" >> >>

\* Path(root) / "Tesseract-OCR" / "tesseract.exe"
TesseractUnder(root) == root \o << "Tesseract-OCR", "tesseract.exe" >>

\* the list `candidates` of main.py:99-105
RECURSIVE CandidatesOf(_)
CandidatesOf(roots) ==
    IF roots = << >> THEN << >>
    ELSE IF ~Truthy(Head(roots)) THEN CandidatesOf(Tail(roots))
    ELSE << TesseractUnder(Head(roots)) >> \o CandidatesOf(Tail(roots))

Candidates(e) == CandidatesOf(<< e.ProgramFiles, e.ProgramFilesX86 >> \o LiteralRoots)

\* for p in candidates: if p.exists(): return str(p) ... return None
RECURSIVE FirstExisting(_, _)
FirstExisting(cands, existing) ==
    IF cands = << >> THEN NonePath
    ELSE IF Head(cands) \in existing THEN Head(cands)
    ELSE FirstExisting(Tail(cands), existing)

\* a bug that prefers the PATH over the configured command
DetectPathFirst(e) ==
    IF Truthy(e.which) THEN e.which
    ELSE IF Truthy(e.TESSERACT_CMD) THEN e.TESSERACT_CMD
    ELSE FirstExisting(Candidates(e), e.existing)

_detect_tesseract_cmd(e) ==
    IF Truthy(e.TESSERACT_CMD) THEN e.TESSERACT_CMD
    ELSE IF Truthy(e.which) THEN e.which
    ELSE FirstExisting(Candidates(e), e.existing)

\* whether pytesseract can start the executable it was left with at import
\* (main.py:114-116): the detected command, else the default "tesseract" on PATH
EngineRunnable(e) ==
    LET d == _detect_tesseract_cmd(e)
    IN  IF d = NonePath THEN FALSE
        ELSE IF d = e.TESSERACT_CMD THEN e.cmd_runnable
        ELSE TRUE

\* every environment of the discovery
ConfiguredCmd == << "D:\\ocr\\tesseract.exe" >>
OnPath == << "/usr/bin/tesseract" >>
EnvRoot == << "D:\\Programs" >>
EnvRootX86 == << "D:\\Programs (x86)" >>
AllCandidatePaths ==
    { TesseractUnder(r) : r \in {EnvRoot, EnvRootX86, LiteralRoots[1], LiteralRoots[2]} }

AllEnvs ==
    [ TESSERACT_CMD : {NonePath, EmptyPath, ConfiguredCmd},
      cmd_runnable : BOOLEAN,
      which : {NonePath, OnPath},
      ProgramFiles : {NonePath, EmptyPath, EnvRoot},
      ProgramFilesX86 : {NonePath, EnvRootX86},
      existing : SUBSET AllCandidatePaths ]

----------------------------------------------------------------------------
(* The OCR request: inputs *)

\* str(x) as code points, for the content types of the model
CT_image_png == << 105, 109, 97, 103, 101, 47, 112, 110, 103 >>
CT_IMAGE_PNG == << 73, 77, 65, 71, 69, 47, 80, 78, 71 >>
CT_text_plain == << 116, 101, 120, 116, 47, 112, 108, 97, 105, 110 >>
\* the literal "image/" of main.py:378 and main.py:428
ImagePrefix == << 105, 109, 97, 103, 101, 47 >>

ContentTypes == { NoneStr, << >>, CT_text_plain, CT_image_png, CT_IMAGE_PNG }

\* the uploaded bytes: b"" , bytes Image.open rejects, bytes it accepts
ByteBuffers == { "", "garbage", "png" }

Files == [ content_type : ContentTypes, bytes : ByteBuffers ]

Endpoints == { "ocr_image", "ocr_pipeline", "extract_upload" }

\* a Hangul syllable and a space: what the engine's texts are made of (every
\* character class is scored in SpecScore)
OcrAlphabet == { HangulFirst, Ch_space }
Texts == SeqsUpTo(OcrAlphabet, MaxTextLen)

\* environments of the OCR requests: nothing installed; a configured command
\* that does not exist; tesseract on the PATH; an installation directory
OcrEnvs ==
    { [ TESSERACT_CMD |-> NonePath, cmd_runnable |-> FALSE, which |-> NonePath,
        ProgramFiles |-> EnvRoot, ProgramFilesX86 |-> NonePath, existing |-> {} ],
      [ TESSERACT_CMD |-> ConfiguredCmd, cmd_runnable |-> FALSE, which |-> NonePath,
        ProgramFiles |-> NonePath, ProgramFilesX86 |-> NonePath, existing |-> {} ],
      [ TESSERACT_CMD |-> NonePath, cmd_runnable |-> FALSE, which |-> OnPath,
        ProgramFiles |-> NonePath, ProgramFilesX86 |-> NonePath, existing |-> {} ],
      [ TESSERACT_CMD |-> NonePath, cmd_runnable |-> FALSE, which |-> NonePath,
        ProgramFiles |-> EnvRoot, ProgramFilesX86 |-> NonePath,
        existing |-> { TesseractUnder(EnvRoot) } ] }

----------------------------------------------------------------------------
(* The OCR request: values *)

NoResult == [ kind |-> "none" ]

\* raise HTTPException(status_code, detail); `paths` are the file-system
\* locations the detail text spells out
HTTPException(status, detail, paths) ==
    [ kind |-> "error", status |-> status, detail |-> detail, paths |-> paths ]

NoMeta == [ n \in {} |-> 0 ]
NoBuild == [ exif |-> FALSE, light |-> FALSE, binarized |-> FALSE ]

\* the transforms of main.py:466-468 and main.py:474-477
LightOps == << "convert L", "resize 2x", "autocontrast" >>
BinarizedOps == LightOps \o << "point 160", "convert L" >>

\* a build in which a failing light variant also loses the binarized one
VariantListOneTry(b, light_ok, bin_ok) ==
    << [ name |-> "raw", img |-> [ base |-> b, ops |-> << >> ] ] >>
    \o (IF light_ok
        THEN << [ name |-> "light", img |-> [ base |-> b, ops |-> LightOps ] ] >>
             \o (IF bin_ok
                 THEN << [ name |-> "binarized", img |-> [ base |-> b, ops |-> BinarizedOps ] ] >>
                 ELSE << >>)
        ELSE << >>)

\* the list `variants` after main.py:457-480
VariantList(b, light_ok, bin_ok) ==
    << [ name |-> "raw", img |-> [ base |-> b, ops |-> << >> ] ] >>
    \o (IF light_ok
        THEN << [ name |-> "light", img |-> [ base |-> b, ops |-> LightOps ] ] >>
        ELSE << >>)
    \o (IF bin_ok
        THEN << [ name |-> "binarized", img |-> [ base |-> b, ops |-> BinarizedOps ] ] >>
        ELSE << >>)

\* a comparison that lets a later variant win a tie
BetterOrEqual(s, best) == s >= best

\* `if s > best_score`, main.py:496
Better(s, best) == s > best

\* an entry that records the untrimmed length
CandidateEntryRawLength(t) == [ score |-> _score_text(t), length |-> Len(t) ]

\* candidate_meta[name], main.py:492-495
CandidateEntry(t) == [ score |-> _score_text(t), length |-> Len(strip(t)) ]

\* the path the detail text gives as an example, main.py:508
ExamplePath == << "C:\\Program Files", "Tesseract-OCR", "tesseract.exe" >>

\* the HTTPException of main.py:503-511
TesseractNotFound(e) ==
    LET d == _detect_tesseract_cmd(e)
    IN  HTTPException(500, "Tesseract executable not found",
                      {ExamplePath} \cup (IF d = NonePath THEN {} ELSE {d}))

\* a test that never finds the bytes undecodable
OpenNeverRaises(bytes) == FALSE

\* Image.open(io.BytesIO(image_bytes)) raises, main.py:435-438
OpenRaises(bytes) == bytes = "garbage"

\* a test that only rejects a missing content type
NotImageOnlyIfMissing(ct) == OrEmpty(ct) = << >>

\* `not (file.content_type or "").startswith("image/")`, main.py:428
NotImage(ct) == ~startswith(OrEmpty(ct), ImagePrefix)

----------------------------------------------------------------------------
(* The handlers, their uploads and the replies of the chat completion *)

\* the handlers that read an insurance file and certificate files
CareerEndpoints ==
    { "career_curriculum", "career_teaching_profile", "career_teachable_certifications" }
\* the handlers that run OCR and then the chat completion
ImageLlmEndpoints == { "ocr_pipeline", "curriculum_from_image" } \cup CareerEndpoints
\* the handlers that take their texts from the request body
JsonTextEndpoints ==
    { "career_teaching_profile_from_text", "career_teachable_certifications_from_text" }
TextEndpoints == { "make_curriculum", "career_curriculum_from_text" } \cup JsonTextEndpoints
\* the handlers that ask the model for strict JSON
JsonEndpoints ==
    { "career_teaching_profile", "career_teachable_certifications" } \cup JsonTextEndpoints

\* texts the engine returns where several files are read: nothing, a
\* syllable, a blank
CareerTexts == { << >>, << HangulFirst >>, << Ch_space >> }

\* texts the engine returns
EngineTexts(e) == IF e \in CareerEndpoints THEN CareerTexts ELSE Texts

\* uploads of the career endpoints: a good image, a text file, an empty
\* image, an image that does not decode
CareerFiles ==
    { [ content_type |-> CT_image_png, bytes |-> "png" ],
      [ content_type |-> CT_text_plain, bytes |-> "png" ],
      [ content_type |-> CT_image_png, bytes |-> "" ],
      [ content_type |-> CT_image_png, bytes |-> "garbage" ] }

\* insurance_file followed by at most MaxCertFiles certificate_files
UploadLists == { fs \in SeqsUpTo(CareerFiles, 1 + MaxCertFiles) : fs # << >> }

\* nothing installed, and tesseract on the PATH
CareerEnvs == { e \in OcrEnvs : e.TESSERACT_CMD = NonePath /\ e.existing = {} }

\* certificate_hints: none, or a blank one and a misread one
HintLists == { << >>, << << Ch_space >>, << Ch_space, Ch_san, Ch_yeop >> >> }

\* for h in certificate_hints: if h and h.strip(): ..., main.py:765-768
HintTexts(hints) ==
    LET kept == SelectSeq(hints, LAMBDA h : strip(h) # << >>)
    IN  [ i \in DOMAIN kept |-> _normalize_cert_name(strip(kept[i])) ]

\* [... for t in (body.certificate_texts or []) if t], main.py:888
BodyCertTexts(texts) ==
    LET kept == SelectSeq(texts, LAMBDA t : t # << >>)
    IN  [ i \in DOMAIN kept |-> _normalize_certificate_ocr_text(kept[i]) ]

\* the certificate texts of a request body
BodyTextLists ==
    { << >>, << << >>, << Ch_gong, Ch_yu, Ch_space, Ch_am >> \o Str_ginGsa >> }

\* a handler that goes on to the chat completion after any upload
AnyFileRead(idx, fs) == TRUE

\* the loop over certificate_files is over, main.py:752-762
AllFilesRead(idx, fs) == idx = Len(fs)

NoReply == [ outcome |-> "none", text |-> << >>, certs |-> << >>, schema_ok |-> TRUE ]

\* the model answered `text`; `certs` are the entries of the key
\* teachable_certifications of the object read from it, and schema_ok says
\* whether they pass the validation of TeachableCertification
Reply(text, certs, schema_ok) ==
    [ outcome |-> "reply", text |-> text, certs |-> certs, schema_ok |-> schema_ok ]

\* httpx.TimeoutException, httpx.HTTPStatusError (raise_for_status),
\* httpx.ConnectError, main.py:156-158
LlmFailures == { "timeout", "status_error", "connect_error" }

Failure(k) == [ outcome |-> k, text |-> << >>, certs |-> << >>, schema_ok |-> TRUE ]

\* {"teachable_certifications": [{...}]}
ObjectText == << "{", "k:", "[", "{", "k:", "1", "}", "]", "}" >>

\* whitespace of three kinds
WsChars == { Ch_space, 9, 12288 }

\* the strings of S with up to n whitespace characters put between their characters
RECURSIVE Inserted(_, _)
Inserted(S, n) ==
    IF n = 0 THEN S
    ELSE LET prev == Inserted(S, n - 1)
         IN  prev \cup UNION { { SubSeq(x, 1, i) \o << w >> \o SubSeq(x, i + 1, Len(x)) :
                                   i \in 1..(Len(x) - 1), w \in WsChars } : x \in prev }

\* names the model gives: canonical ones with whitespace inside, a misread
\* one, one with spaces around it, one the table does not know
CertNames ==
    Inserted(CanonicalNames, MaxInserted)
    \cup { Str_keompyuteo_eungyong \o << Ch_il, Ch_ring >> \o Str_ginGsa,
           << Ch_space, Ch_gong, Ch_yu, Ch_am >> \o Str_ginGsa \o << Ch_space >>,
           << HangulFirst >> }

\* subjects the model lists: none, or one of its own
LlmSubjects == { << >>, << << 97 >> >> }

Certification(name, subjects) == [ name |-> name, subjects |-> subjects ]

CertReplies ==
    { Reply(ObjectText, << Certification(n, sb) >>, TRUE) : n \in CertNames, sb \in LlmSubjects }
    \cup { Reply(ObjectText,
                 << Certification(HydraulicsTitle, << >>),
                    Certification(MillingTitle, << << 97 >> >>) >>, TRUE),
           Reply(ObjectText, << >>, TRUE),
           Reply(ObjectText, << Certification(<< HangulFirst >>, << >>) >>, FALSE) }

TokenReplies == { Reply(t, << >>, TRUE) : t \in SeqsUpTo(JsonTokens, MaxReplyLen) }

\* the replies explored for a handler
RepliesFor(e) ==
    IF e \in JsonTextEndpoints THEN TokenReplies \cup CertReplies
    ELSE IF e \in JsonEndpoints
    THEN { Reply(ObjectText, << Certification(MillingTitle, << >>) >>, TRUE),
           Reply(<< "x" >>, << >>, TRUE) }
    ELSE { Reply(<< "x" >>, << >>, TRUE) }

\* an exception no handler catches: the framework answers 500
InternalServerError == HTTPException(500, "Internal Server Error", {})

\* _lmstudio_chat_completions raises and no caller catches it
UpstreamFailure(k) == InternalServerError

\* raise HTTPException(status_code=502, detail={"message": ..., "raw_text": raw_text})
MalformedModelOutput(raw_text) ==
    [ kind |-> "error", status |-> 502, detail |-> "LLM did not return valid JSON",
      paths |-> {}, raw_text |-> raw_text ]

\* career_teaching_profile and its three siblings after the chat completion
\* returned, main.py:854-882
TeachingResponse(r, map) ==
    LET x == _extract_first_json_object(r.text)
    IN  IF ~x.ok THEN MalformedModelOutput(r.text)
        ELSE IF ~r.schema_ok THEN InternalServerError
        ELSE [ kind |-> "ok", teachable_certifications |-> ShapeCerts(r.certs, map),
               raw_text |-> r.text ]

----------------------------------------------------------------------------
(* The OCR request: actions *)

\* the calls of inferSubjectsForUnknown
Calls == 1..MaxCalls

\* no subject inference has started and the cache is empty
InferIdle ==
    /\ llm_fallback = TRUE
    /\ infer_cache = {}
    /\ infer_pc = [ c \in Calls |-> "idle" ]
    /\ infer_name = [ c \in Calls |-> << >> ]
    /\ infer_line = [ c \in Calls |-> << >> ]
    /\ infer_issued = [ c \in Calls |-> FALSE ]
    /\ infer_before = [ c \in Calls |-> {} ]

\* nothing of the request has run
OcrFresh ==
    /\ file_idx = 1
    /\ ocr_done = << >>
    /\ llm_reply = NoReply
    /\ _CERT_SUBJECT_MAP = Taxonomy
    /\ served = 0
    /\ decoded = FALSE
    /\ base = "none"
    /\ build_ok = NoBuild
    /\ variants = << >>
    /\ vi = 0
    /\ best_name = ""
    /\ best_text = << >>
    /\ best_score = -1
    /\ candidate_meta = NoMeta
    /\ engine_out = << >>
    /\ ocr = NoResult
    /\ llm_calls = 0
    /\ result = NoResult

\* one upload, no texts in the body
NoBody ==
    /\ files = << file >>
    /\ insurance_text = << >>
    /\ cert_texts = << >>
    /\ certificate_hints = << >>

FnIdle ==
    /\ fn_pc = "idle"
    /\ fn_arg = << >>
    /\ fn_out = << >>
    /\ fn_out2 = << >>

Init ==
    /\ endpoint \in Endpoints
    /\ file \in Files
    /\ env \in OcrEnvs
    /\ detected = _detect_tesseract_cmd(env)
    /\ pc = IF endpoint = "extract_upload" THEN "upload" ELSE "ocr"
    /\ ocr_file = file
    /\ NoBody
    /\ OcrFresh
    /\ FnIdle
    /\ InferIdle

\* a handler that notes the failure and goes on where it was
RaiseAndGoOn(e) ==
    /\ result' = e
    /\ pc' = pc

\* raise: the exception leaves the handler, which is not resumed
Raise(e) ==
    /\ result' = e
    /\ pc' = "done"

\* _extract_text_from_upload up to its call of the OCR helper, main.py:373-397
ExtractTextFromUpload ==
    /\ pc = "upload"
    /\ LET ct == lower(OrEmpty(file.content_type))
       IN  IF file.bytes = ""
           THEN /\ Raise(HTTPException(400, "Empty file: {filename}", {}))
                /\ UNCHANGED ocr_file
           ELSE IF startswith(ct, ImagePrefix)
           THEN /\ ocr_file' = [ content_type |-> IF ct = << >> THEN CT_image_png ELSE ct,
                                 bytes |-> file.bytes ]
                /\ pc' = "ocr"
                /\ UNCHANGED result
           ELSE /\ Raise(HTTPException(400, "Unsupported file type", {}))
                /\ UNCHANGED ocr_file
    /\ UNCHANGED <<endpoint, file, env, detected, decoded, base, build_ok, variants, vi,
                   best_name, best_text, best_score, candidate_meta, engine_out, ocr,
                   llm_calls, fn_vars, infer_vars, req_vars>>

\* _ocr_extract_text_from_image: the checks and Image.open, main.py:428-438
OcrValidate ==
    /\ pc = "ocr"
    /\ IF NotImage(ocr_file.content_type)
       THEN /\ Raise(HTTPException(400, "Only image uploads are supported", {}))
            /\ UNCHANGED decoded
       ELSE IF ocr_file.bytes = ""
       THEN /\ Raise(HTTPException(400, "Empty file", {}))
            /\ UNCHANGED decoded
       ELSE /\ decoded' = TRUE
            /\ IF OpenRaises(ocr_file.bytes)
               THEN Raise(HTTPException(400, "Invalid image", {}))
               ELSE /\ pc' = "build"
                    /\ UNCHANGED result
    /\ UNCHANGED <<endpoint, file, env, detected, ocr_file, base, build_ok, variants, vi,
                   best_name, best_text, best_score, candidate_meta, engine_out, ocr,
                   llm_calls, fn_vars, infer_vars, req_vars>>

\* the variants and the loop's initial values, main.py:456-488; each of the
\* three guarded steps raises or not
BuildVariants ==
    /\ pc = "build"
    /\ \E exif_ok \in BOOLEAN, light_ok \in BOOLEAN, bin_ok \in BOOLEAN :
          /\ base' = IF exif_ok THEN "transposed" ELSE "original"
          /\ build_ok' = [ exif |-> exif_ok, light |-> light_ok, binarized |-> bin_ok ]
          /\ variants' = VariantList(base', light_ok, bin_ok)
    /\ vi' = 1
    /\ best_name' = "raw"
    /\ best_text' = << >>
    /\ best_score' = -1
    /\ candidate_meta' = NoMeta
    /\ pc' = "engine"
    /\ UNCHANGED <<endpoint, file, env, detected, ocr_file, decoded, engine_out, ocr,
                   llm_calls, result, fn_vars, infer_vars, req_vars>>

\* one iteration of the loop, the engine returning text t, main.py:489-499
EngineRecognizes ==
    /\ pc = "engine"
    /\ vi <= Len(variants)
    /\ EngineRunnable(env)
    /\ \E t \in EngineTexts(endpoint) :
          LET name == variants[vi].name
              s == _score_text(t)
          IN  /\ candidate_meta' =
                    [ n \in (DOMAIN candidate_meta) \cup {name} |->
                          IF n = name THEN CandidateEntry(t) ELSE candidate_meta[n] ]
              /\ IF Better(s, best_score)
                 THEN /\ best_name' = name
                      /\ best_text' = t
                      /\ best_score' = s
                 ELSE UNCHANGED <<best_name, best_text, best_score>>
              /\ engine_out' = Append(engine_out,
                    [ name |-> name, img |-> variants[vi].img, raised |-> "", text |-> t ])
    /\ vi' = vi + 1
    /\ UNCHANGED <<endpoint, file, env, detected, pc, ocr_file, decoded, base, build_ok,
                   variants, ocr, llm_calls, result, fn_vars, infer_vars, req_vars>>

\* pytesseract raises TesseractNotFoundError, main.py:502-511
EngineNotFound ==
    /\ pc = "engine"
    /\ vi <= Len(variants)
    /\ ~EngineRunnable(env)
    /\ engine_out' = Append(engine_out,
          [ name |-> variants[vi].name, img |-> variants[vi].img,
            raised |-> "TesseractNotFoundError", text |-> << >> ])
    /\ Raise(TesseractNotFound(env))
    /\ UNCHANGED <<endpoint, file, env, detected, ocr_file, decoded, base, build_ok,
                   variants, vi, best_name, best_text, best_score, candidate_meta, ocr,
                   llm_calls, fn_vars, infer_vars, req_vars>>

\* a handler that answers with the best text recognized so far
OcrFailedKeepsBest ==
    [ kind |-> "ok", model |-> "tesseract", text |-> strip(best_text),
      raw |-> [ selected_variant |-> best_name, candidates |-> candidate_meta ] ]

\* raise HTTPException(status_code=500, detail=f"OCR failed: {e}"), main.py:513
OcrFailed == HTTPException(500, "OCR failed", {})

\* pytesseract raises anything else, main.py:512-513
EngineFails ==
    /\ pc = "engine"
    /\ vi <= Len(variants)
    /\ engine_out' = Append(engine_out,
          [ name |-> variants[vi].name, img |-> variants[vi].img,
            raised |-> "Exception", text |-> << >> ])
    /\ Raise(OcrFailed)
    /\ UNCHANGED <<endpoint, file, env, detected, ocr_file, decoded, base, build_ok,
                   variants, vi, best_name, best_text, best_score, candidate_meta, ocr,
                   llm_calls, fn_vars, infer_vars, req_vars>>

\* OCRResponse(...), main.py:515-527
OCRResponse ==
    [ kind |-> "ok", model |-> "tesseract", text |-> strip(best_text),
      raw |-> [ selected_variant |-> best_name, candidates |-> candidate_meta ] ]

\* the loop is over: the helper returns to its caller, main.py:501, 515-527;
\* ocr_image returns the response (main.py:538), _extract_text_from_upload
\* returns (ocr.text, ocr.raw) (main.py:392), ocr_pipeline goes on
\* (main.py:660), curriculum_from_image validates the text (main.py:717), the
\* career endpoints keep the text and read the next upload (main.py:750-768)
OcrReturn ==
    /\ pc = "engine"
    /\ vi > Len(variants)
    /\ ocr_done' = Append(ocr_done, file_idx)
    /\ IF endpoint \in CareerEndpoints
       THEN LET t == OCRResponse.text
                texts == IF file_idx > 1 /\ strip(t) # << >>
                         THEN Append(cert_texts, _normalize_certificate_ocr_text(t))
                         ELSE cert_texts
            IN  /\ insurance_text' = IF file_idx = 1 THEN t ELSE insurance_text
                /\ ocr' = NoResult
                /\ UNCHANGED result
                /\ IF AllFilesRead(file_idx, files)
                   THEN /\ cert_texts' = texts \o HintTexts(certificate_hints)
                        /\ pc' = "llm"
                        /\ UNCHANGED <<file, file_idx, ocr_file, decoded, base, build_ok,
                                       variants, vi, best_name, best_text, best_score,
                                       candidate_meta, engine_out>>
                   ELSE /\ cert_texts' = texts
                        /\ file_idx' = file_idx + 1
                        /\ file' = files[file_idx + 1]
                        /\ ocr_file' = file'
                        /\ pc' = "upload"
                        /\ decoded' = FALSE
                        /\ base' = "none"
                        /\ build_ok' = NoBuild
                        /\ variants' = << >>
                        /\ vi' = 0
                        /\ best_name' = ""
                        /\ best_text' = << >>
                        /\ best_score' = -1
                        /\ candidate_meta' = NoMeta
                        /\ engine_out' = << >>
       ELSE /\ ocr' = OCRResponse
            /\ IF endpoint = "ocr_pipeline"
               THEN /\ pc' = "llm"
                    /\ UNCHANGED result
               ELSE IF endpoint = "curriculum_from_image"
               THEN IF ocr'.text = << >>
                    THEN Raise(InternalServerError)
                    ELSE /\ pc' = "llm"
                         /\ UNCHANGED result
               ELSE /\ pc' = "done"
                    /\ result' = IF endpoint = "ocr_image" THEN ocr'
                                 ELSE [ kind |-> "ok", text |-> ocr'.text, raw |-> ocr'.raw ]
            /\ UNCHANGED <<file, file_idx, ocr_file, decoded, base, build_ok, variants, vi,
                           best_name, best_text, best_score, candidate_meta, engine_out,
                           insurance_text, cert_texts>>
    /\ UNCHANGED <<endpoint, files, env, detected, llm_calls, certificate_hints, llm_reply,
                   _CERT_SUBJECT_MAP, served, fn_vars, infer_vars>>

\* what the handler returns once the chat completion has answered r
Response(r) ==
    IF endpoint \in JsonEndpoints THEN TeachingResponse(r, _CERT_SUBJECT_MAP)
    ELSE IF endpoint \in { "ocr_pipeline", "curriculum_from_image" }
    THEN [ kind |-> "ok", ocr_text |-> ocr.text, curriculum |-> r.text, raw_ocr |-> ocr.raw ]
    ELSE IF endpoint = "make_curriculum"
    THEN [ kind |-> "ok", curriculum |-> r.text ]
    ELSE [ kind |-> "ok", insurance_text |-> insurance_text, certificate_texts |-> cert_texts,
           curriculum |-> r.text ]

\* the chat completion answers and the handler builds its response,
\* main.py:141-168, 566-571, 660-675, 791-799, 854-882
LlmReplies ==
    /\ pc = "llm"
    /\ llm_calls' = llm_calls + 1
    /\ \E r \in RepliesFor(endpoint) :
          /\ llm_reply' = r
          /\ result' = Response(r)
          /\ _CERT_SUBJECT_MAP' =
                IF endpoint \in JsonEndpoints /\ result'.kind = "ok"
                THEN MapAfterShaping(r.certs, _CERT_SUBJECT_MAP)
                ELSE _CERT_SUBJECT_MAP
    /\ pc' = "done"
    /\ UNCHANGED <<endpoint, file, env, detected, ocr_file, decoded, base, build_ok,
                   variants, vi, best_name, best_text, best_score, candidate_meta,
                   engine_out, ocr, fn_vars, infer_vars, files, file_idx, ocr_done, insurance_text,
                   cert_texts, certificate_hints, served>>

\* the chat completion raises (httpx error, main.py:156-158), which no
\* handler catches
LlmRaises ==
    /\ pc = "llm"
    /\ llm_calls' = llm_calls + 1
    /\ \E k \in LlmFailures :
          /\ llm_reply' = Failure(k)
          /\ Raise(UpstreamFailure(k))
    /\ UNCHANGED <<endpoint, file, env, detected, ocr_file, decoded, base, build_ok,
                   variants, vi, best_name, best_text, best_score, candidate_meta,
                   engine_out, ocr, fn_vars, infer_vars, files, file_idx, ocr_done, insurance_text,
                   cert_texts, certificate_hints, _CERT_SUBJECT_MAP, served>>

Next ==
    \/ ExtractTextFromUpload
    \/ OcrValidate
    \/ BuildVariants
    \/ EngineRecognizes
    \/ EngineNotFound
    \/ EngineFails
    \/ OcrReturn
    \/ LlmReplies
    \/ LlmRaises

Spec == Init /\ [][Next]_vars

----------------------------------------------------------------------------
(* Calls of the pure functions on bounded inputs *)

\* no request is running
OcrIdle ==
    /\ endpoint = "none"
    /\ file = [ content_type |-> NoneStr, bytes |-> "" ]
    /\ pc = "idle"
    /\ ocr_file = file
    /\ NoBody
    /\ OcrFresh

EmptyEnv ==
    [ TESSERACT_CMD |-> NonePath, cmd_runnable |-> FALSE, which |-> NonePath,
      ProgramFiles |-> NonePath, ProgramFilesX86 |-> NonePath, existing |-> {} ]

\* Hangul syllables (both ends of the block), a compatibility jamo, a letter,
\* a digit, two kinds of whitespace, punctuation
ScoreAlphabet == { HangulFirst, HangulLast, 12593, 97, 49, Ch_space, 10, 46 }

InitScore ==
    /\ OcrIdle
    /\ InferIdle
    /\ env = EmptyEnv
    /\ detected = NonePath
    /\ fn_pc = "score"
    /\ fn_arg \in SeqsUpTo(ScoreAlphabet, MaxScoreLen)
    /\ fn_out = -1
    /\ fn_out2 = -1

\* _score_text(t)
ScoreCall ==
    /\ fn_pc = "score"
    /\ fn_out' = _score_text(fn_arg)
    /\ fn_pc' = "score_trimmed"
    /\ UNCHANGED <<ocr_vars, req_vars, infer_vars, env, detected, fn_arg, fn_out2>>

\* _score_text(t.strip())
ScoreTrimmedCall ==
    /\ fn_pc = "score_trimmed"
    /\ fn_out2' = _score_text(strip(fn_arg))
    /\ fn_pc' = "score_done"
    /\ UNCHANGED <<ocr_vars, req_vars, infer_vars, env, detected, fn_arg, fn_out>>

NextScore == ScoreCall \/ ScoreTrimmedCall

SpecScore == InitScore /\ [][NextScore]_vars

\* the characters of the replaced patterns, one replacement character, a space
NameAlphabet ==
    { Ch_il, Ch_ring, Ch_mil, Ch_gong, Ch_yu, Ch_am, Ch_san, Ch_eom, Ch_yeop, Ch_space }

InitNorm ==
    /\ OcrIdle
    /\ InferIdle
    /\ env = EmptyEnv
    /\ detected = NonePath
    /\ fn_pc = "norm"
    /\ fn_arg \in SeqsUpTo(NameAlphabet, MaxNameLen) \cup { NoneStr }
    /\ fn_out = << >>
    /\ fn_out2 = << >>

\* _normalize_cert_name(x)
NormCall ==
    /\ fn_pc = "norm"
    /\ fn_out' = _normalize_cert_name(fn_arg)
    /\ fn_pc' = "norm_again"
    /\ UNCHANGED <<ocr_vars, req_vars, infer_vars, env, detected, fn_arg, fn_out2>>

\* _normalize_cert_name applied to its own result
NormAgainCall ==
    /\ fn_pc = "norm_again"
    /\ fn_out2' = _normalize_cert_name(fn_out)
    /\ fn_pc' = "norm_done"
    /\ UNCHANGED <<ocr_vars, req_vars, infer_vars, env, detected, fn_arg, fn_out>>

NextNorm == NormCall \/ NormAgainCall

SpecNorm == InitNorm /\ [][NextNorm]_vars

\* whitespace of three kinds (space, newline, ideographic space), one syllable
BlobAlphabet == { Ch_space, 10, 12288, Ch_il }

\* n spaces
Spaces(n) == [ i \in 1..n |-> Ch_space ]

\* the two misread titles with runs of spaces inside, as OCR produces them
GarbledTitles ==
    { Str_keompyuteo_eungyong \o Spaces(a) \o << Ch_il, Ch_ring >> \o Spaces(b) \o Str_ginGsa :
          a \in 0..MaxGap, b \in 0..MaxGap }
    \cup
    { << Ch_gong, Ch_yu >> \o Spaces(a) \o << Ch_am >> \o Spaces(b) \o Str_ginGsa :
          a \in 0..MaxGap, b \in 0..MaxGap }

InitBlob ==
    /\ OcrIdle
    /\ InferIdle
    /\ env = EmptyEnv
    /\ detected = NonePath
    /\ fn_pc = "blob_name"
    /\ fn_arg \in SeqsUpTo(BlobAlphabet, MaxBlobLen) \cup GarbledTitles \cup { NoneStr }
    /\ fn_out = NoneStr
    /\ fn_out2 = NoneStr

\* _normalize_cert_name(x)
BlobNameCall ==
    /\ fn_pc = "blob_name"
    /\ fn_out' = _normalize_cert_name(fn_arg)
    /\ fn_pc' = "blob_text"
    /\ UNCHANGED <<ocr_vars, req_vars, infer_vars, env, detected, fn_arg, fn_out2>>

\* _normalize_certificate_ocr_text(x)
BlobTextCall ==
    /\ fn_pc = "blob_text"
    /\ fn_out2' = _normalize_certificate_ocr_text(fn_arg)
    /\ fn_pc' = "blob_done"
    /\ UNCHANGED <<ocr_vars, req_vars, infer_vars, env, detected, fn_arg, fn_out>>

NextBlob == BlobNameCall \/ BlobTextCall

SpecBlob == InitBlob /\ [][NextBlob]_vars

InitDetect ==
    /\ OcrIdle
    /\ InferIdle
    /\ env \in AllEnvs
    /\ detected = NonePath
    /\ fn_pc = "import"
    /\ fn_arg = << >>
    /\ fn_out = << >>
    /\ fn_out2 = << >>

\* _tesseract_cmd = _detect_tesseract_cmd(), main.py:114
ImportModule ==
    /\ fn_pc = "import"
    /\ detected' = _detect_tesseract_cmd(env)
    /\ fn_pc' = "imported"
    /\ UNCHANGED <<ocr_vars, req_vars, infer_vars, env, fn_arg, fn_out, fn_out2>>

NextDetect == ImportModule

SpecDetect == InitDetect /\ [][NextDetect]_vars

----------------------------------------------------------------------------
(* The handlers that run OCR on every upload and then the chat completion *)

InitCareer ==
    /\ endpoint \in ImageLlmEndpoints
    /\ files \in IF endpoint \in CareerEndpoints THEN UploadLists
                 ELSE { << f >> : f \in CareerFiles }
    /\ file = files[1]
    /\ env \in CareerEnvs
    /\ detected = _detect_tesseract_cmd(env)
    /\ pc = IF endpoint \in CareerEndpoints THEN "upload" ELSE "ocr"
    /\ ocr_file = file
    /\ insurance_text = << >>
    /\ cert_texts = << >>
    /\ certificate_hints \in IF endpoint \in CareerEndpoints THEN HintLists ELSE { << >> }
    /\ OcrFresh
    /\ FnIdle
    /\ InferIdle

SpecCareer == InitCareer /\ [][Next]_vars

----------------------------------------------------------------------------
(* The handlers that take their texts from the body, one request after the *)
(* other in one process                                                    *)

\* a request body: body.text or body.insurance_text (min_length=1), and
\* body.certificate_texts
TextRequest(e, ins, certs) ==
    /\ e \in TextEndpoints
    /\ ins = << HangulFirst >>
    /\ certs \in IF e = "make_curriculum" THEN { << >> } ELSE BodyTextLists

InitText ==
    /\ TextRequest(endpoint, insurance_text, cert_texts)
    /\ file = [ content_type |-> NoneStr, bytes |-> "" ]
    /\ files = << file >>
    /\ ocr_file = file
    /\ certificate_hints = << >>
    /\ env = EmptyEnv
    /\ detected = NonePath
    /\ pc = "text"
    /\ OcrFresh
    /\ FnIdle
    /\ InferIdle

\* the handler up to its chat completion, main.py:557, 887-894, 1016-1023, 1059-1066
FromTextPrepare ==
    /\ pc = "text"
    /\ cert_texts' = IF endpoint \in JsonTextEndpoints THEN BodyCertTexts(cert_texts)
                     ELSE cert_texts
    /\ pc' = "llm"
    /\ UNCHANGED <<endpoint, file, env, detected, ocr_file, decoded, base, build_ok,
                   variants, vi, best_name, best_text, best_score, candidate_meta,
                   engine_out, ocr, llm_calls, result, fn_vars, infer_vars, files, file_idx, ocr_done,
                   insurance_text, certificate_hints, llm_reply, _CERT_SUBJECT_MAP, served>>

\* the process takes its next request; only module-level state is kept
NewRequest ==
    /\ pc = "done"
    /\ served < MaxRequests
    /\ served' = served + 1
    /\ TextRequest(endpoint', insurance_text', cert_texts')
    /\ pc' = "text"
    /\ llm_calls' = 0
    /\ llm_reply' = NoReply
    /\ result' = NoResult
    /\ UNCHANGED <<file, env, detected, ocr_file, decoded, base, build_ok, variants, vi,
                   best_name, best_text, best_score, candidate_meta, engine_out, ocr,
                   fn_vars, infer_vars, files, file_idx, ocr_done, certificate_hints,
                   _CERT_SUBJECT_MAP>>

NextText ==
    \/ FromTextPrepare
    \/ LlmReplies
    \/ LlmRaises
    \/ NewRequest

SpecText == InitText /\ [][NextText]_vars

----------------------------------------------------------------------------
(* _is_dependent_mode, main.py:69-75, and                                  *)
(* _looks_like_dependent_insurance, main.py:236-239                        *)

\* {"true", "1", "yes", "y", "on"}, main.py:71
TrueModes ==
    { << 116, 114, 117, 101 >>, << 49 >>, << 121, 101, 115 >>, << 121 >>, << 111, 110 >> }

\* {"false", "0", "no", "n", "off"}, main.py:73
FalseModes ==
    { << 102, 97, 108, 115, 101 >>, << 48 >>, << 110, 111 >>, << 110 >>, << 111, 102, 102 >> }

\* keywords = ["직장피부양자", "피부양자", "직장피부양"], main.py:238
_looks_like_dependent_insurance(text) ==
    LET t == NoSpaces(OrEmpty(text))
        keywords == << << 51649, 51109, 54588, 48512, 50577, 51088 >>,
                       << 54588, 48512, 50577, 51088 >>,
                       << 51649, 51109, 54588, 48512, 50577 >> >>
    IN  \E i \in DOMAIN keywords : Contains(t, keywords[i])

\* Python's `dependent_mode or "auto"`
OrAuto(x) == IF x = NoneStr \/ x = << >> THEN << 97, 117, 116, 111 >> ELSE x

\* a version that compares the flag as it was typed, without lower()
IsDependentModeCaseSensitive(dependent_mode, text) ==
    LET mode == strip(OrAuto(dependent_mode))
    IN  IF mode \in TrueModes THEN TRUE
        ELSE IF mode \in FalseModes THEN FALSE
        ELSE _looks_like_dependent_insurance(text)

_is_dependent_mode(dependent_mode, text) ==
    LET mode == lower(strip(OrAuto(dependent_mode)))
    IN  IF mode \in TrueModes THEN TRUE
        ELSE IF mode \in FalseModes THEN FALSE
        ELSE _looks_like_dependent_insurance(text)

\* a word as a user types it: as it is, in capitals, with whitespace around it
Typed(w) ==
    LET upper == [ i \in DOMAIN w |-> IF 97 <= w[i] /\ w[i] <= 122 THEN w[i] - 32 ELSE w[i] ]
    IN  { w, upper, << Ch_space >> \o w, w \o << 10 >>,
          << Ch_space >> \o upper \o << Ch_space >> }

\* the flags of the requests, each with what it stands for; the values that
\* are no flag are a word, a truncated and an extended flag, a flag with a
\* space inside, a blank
DependentModes ==
    { [ means |-> "true", mode |-> m ] : m \in UNION { Typed(w) : w \in TrueModes } }
    \cup { [ means |-> "false", mode |-> m ] : m \in UNION { Typed(w) : w \in FalseModes } }
    \cup { [ means |-> "auto", mode |-> m ] :
             m \in Typed(<< 97, 117, 116, 111 >>) \cup { NoneStr, << >> } }
    \cup { [ means |-> "other", mode |-> m ] :
             m \in { << 109, 97, 121, 98, 101 >>, << 116, 114, 117 >>,
                     << 116, 114, 117, 101, 115 >>, << 111, Ch_space, 110 >>,
                     << Ch_space >> } }

RECURSIVE Concat(_)
Concat(ps) == IF ps = << >> THEN << >> ELSE Head(ps) \o Concat(Tail(ps))

\* the insurance texts: up to MaxPieces pieces, each 직장, 피부양, 자, a
\* space, a tab or another syllable; or no text
InsuranceTexts ==
    LET TextPieces == { << 51649, 51109 >>, << 54588, 48512, 50577 >>, << 51088 >>,
                        << Ch_space >>, << 9 >>, << HangulFirst >> }
    IN  { Concat(ps) : ps \in SeqsUpTo(TextPieces, MaxPieces) } \cup { NoneStr }

InitDependent ==
    /\ OcrIdle
    /\ InferIdle
    /\ env = EmptyEnv
    /\ detected = NonePath
    /\ fn_pc = "is_dependent"
    /\ fn_arg \in [ flag : DependentModes, text : InsuranceTexts ]
    /\ fn_out = "none"
    /\ fn_out2 = << >>

\* _is_dependent_mode(dependent_mode, insurance_text)
IsDependentCall ==
    /\ fn_pc = "is_dependent"
    /\ fn_out' = IF _is_dependent_mode(fn_arg.flag.mode, fn_arg.text) THEN "True" ELSE "False"
    /\ fn_pc' = "is_dependent_done"
    /\ UNCHANGED <<ocr_vars, req_vars, infer_vars, env, detected, fn_arg, fn_out2>>

SpecDependent == InitDependent /\ [][IsDependentCall]_vars

----------------------------------------------------------------------------
(* inferSubjectsForUnknown and its process-wide cache.  Calls of several   *)
(* requests interleave where a call waits for the LLM.                     *)

\* two syllables, bare and with a space or an ideographic space between
\* them, and another name
InferNames ==
    { << HangulFirst, HangulLast >>, << HangulFirst, Ch_space, HangulLast >>,
      << HangulFirst, 12288, HangulLast >>, << HangulLast >> }

\* what the first line of the model's answer says after the name
InferAnswers == { "subjects a", "subjects b", "no info" }

\* a key that keeps the spelling of the name
CacheKeyRaw(name) == name

\* the compacted name
CacheKey(name) == SelectSeq(name, LAMBDA ch : ~isspace(ch))

\* the line "<name> - ...", forced to begin with the certificate name
SubjectLine(name, rest) == [ name |-> name, rest |-> rest ]

\* the entries of the cache under key k
CachedUnder(k) == { e \in infer_cache : e.key = k }

\* the cache with `line` stored under k
CachePut(k, line) == (infer_cache \ CachedUnder(k)) \cup { [ key |-> k, line |-> line ] }

InitCache ==
    /\ OcrIdle
    /\ FnIdle
    /\ env = EmptyEnv
    /\ detected = NonePath
    /\ llm_fallback \in BOOLEAN
    /\ infer_cache = {}
    /\ infer_pc = [ c \in Calls |-> "idle" ]
    /\ infer_name = [ c \in Calls |-> << >> ]
    /\ infer_line = [ c \in Calls |-> << >> ]
    /\ infer_issued = [ c \in Calls |-> FALSE ]
    /\ infer_before = [ c \in Calls |-> {} ]

\* a call looks its name up: a hit returns the cached line; a miss with the
\* fallback disabled caches and returns the placeholder; a miss with the
\* fallback enabled issues the prompt and waits
InferStart ==
    \E c \in Calls, n \in InferNames :
       /\ infer_pc[c] = "idle"
       /\ infer_name' = [ infer_name EXCEPT ![c] = n ]
       /\ infer_before' = [ infer_before EXCEPT ![c] = { d \in Calls : infer_pc[d] = "returned" } ]
       /\ LET k == CacheKey(n)
          IN  IF CachedUnder(k) # {}
              THEN /\ infer_line' = [ infer_line EXCEPT ![c] = (CHOOSE e \in CachedUnder(k) : TRUE).line ]
                   /\ infer_pc' = [ infer_pc EXCEPT ![c] = "returned" ]
                   /\ UNCHANGED <<infer_cache, infer_issued>>
              ELSE IF ~llm_fallback
              THEN /\ infer_line' = [ infer_line EXCEPT ![c] = SubjectLine(n, "not registered") ]
                   /\ infer_cache' = CachePut(k, infer_line'[c])
                   /\ infer_pc' = [ infer_pc EXCEPT ![c] = "returned" ]
                   /\ UNCHANGED infer_issued
              ELSE /\ infer_issued' = [ infer_issued EXCEPT ![c] = TRUE ]
                   /\ infer_pc' = [ infer_pc EXCEPT ![c] = "awaiting" ]
                   /\ UNCHANGED <<infer_cache, infer_line>>
       /\ UNCHANGED <<ocr_vars, req_vars, env, detected, fn_vars, llm_fallback>>

\* the LLM answers a waiting call, which caches the line and returns it
InferLlmAnswers ==
    \E c \in Calls, a \in InferAnswers :
       /\ infer_pc[c] = "awaiting"
       /\ infer_line' = [ infer_line EXCEPT ![c] = SubjectLine(infer_name[c], a) ]
       /\ infer_cache' = CachePut(CacheKey(infer_name[c]), infer_line'[c])
       /\ infer_pc' = [ infer_pc EXCEPT ![c] = "returned" ]
       /\ UNCHANGED <<ocr_vars, req_vars, env, detected, fn_vars, llm_fallback, infer_name,
                      infer_issued, infer_before>>

NextCache == InferStart \/ InferLlmAnswers

SpecCache == InitCache /\ [][NextCache]_vars

----------------------------------------------------------------------------
(* Properties *)

CountOf(t, S) == Cardinality({ i \in DOMAIN t : t[i] \in S })

\* the score by counting: 3 per Hangul syllable, 2 per other alphanumeric
\* character, 1 per character that is neither alphanumeric nor whitespace
ExpectedScore(t) ==
    LET chars == { t[i] : i \in DOMAIN t }
        N == CountOf(t, { c \in chars : IsHangul(c) })
        M == CountOf(t, { c \in chars : isalnum(c) /\ ~IsHangul(c) })
        W == CountOf(t, { c \in chars : isspace(c) })
    IN  3 * N + 2 * M + (Len(t) - N - M - W)

\* every engine invocation so far returned a text
AllRecognized == \A i \in DOMAIN engine_out : engine_out[i].raised = ""

NamesOf(seq) == [ i \in DOMAIN seq |-> seq[i].name ]

\* C1: after every iteration of the selection loop, and in the response, the
\* selected variant is the earliest-evaluated one among those of maximal
\* score: no evaluated variant scores strictly higher, none evaluated before
\* it scores as much, and the selected text is that variant's text (the
\* response carries it trimmed).
C1_EarliestMaximumSelected ==
    (engine_out # << >> /\ AllRecognized) =>
        \E k \in DOMAIN engine_out :
            /\ best_name = engine_out[k].name
            /\ best_text = engine_out[k].text
            /\ \A j \in DOMAIN engine_out :
                  ExpectedScore(engine_out[j].text) <= ExpectedScore(engine_out[k].text)
            /\ \A j \in 1..(k - 1) :
                  ExpectedScore(engine_out[j].text) < ExpectedScore(engine_out[k].text)
            /\ ocr.kind = "ok" =>
                  /\ ocr.raw.selected_variant = engine_out[k].name
                  /\ ocr.text = strip(engine_out[k].text)

\* three variants evaluated, the second and third tie above the first with
\* different texts, and the second is selected
C1_Witness ==
    /\ ocr.kind = "ok"
    /\ Len(engine_out) = 3
    /\ ocr.raw.selected_variant = "light"
    /\ engine_out[2].text # engine_out[3].text
    /\ ExpectedScore(engine_out[2].text) = ExpectedScore(engine_out[3].text)
    /\ ExpectedScore(engine_out[1].text) < ExpectedScore(engine_out[2].text)

\* C2: _score_text returns 3N + 2M + (len - N - M - W) for a text with N
\* Hangul syllables, M other alphanumeric characters and W whitespace
\* characters; the empty text scores 0; a text and its trimmed form score
\* the same.
C2_ScoreFormula ==
    /\ fn_pc \in {"score_trimmed", "score_done"} =>
          /\ fn_out = ExpectedScore(fn_arg)
          /\ fn_arg = << >> => fn_out = 0
    /\ fn_pc = "score_done" => fn_out2 = fn_out

\* space, Hangul, jamo: 0 + 3 + 2, and the trimmed form scores the same
C2_Witness ==
    /\ fn_pc = "score_done"
    /\ fn_arg = << Ch_space, HangulLast, 12593 >>
    /\ fn_out = 5
    /\ fn_out2 = 5

\* the names a build with the recorded failures must yield
ExpectedNames ==
    << "raw" >> \o (IF build_ok.light THEN << "light" >> ELSE << >>)
                \o (IF build_ok.binarized THEN << "binarized" >> ELSE << >>)

\* C3: whichever of the EXIF transpose, the light build and the binarized
\* build raise, the OCR call goes on: the raw variant is first, a failing
\* variant alone is missing, every variant is made from the unrotated image
\* when the transpose raised, no error comes out of the build, and the engine
\* is run on, and the selection made over, exactly the variants built.
C3_BuildFailuresSkipped ==
    /\ pc = "build" => result = NoResult
    /\ variants # << >> =>
          /\ NamesOf(variants) = ExpectedNames
          /\ \A i \in DOMAIN variants :
                variants[i].img.base = IF build_ok.exif THEN "transposed" ELSE "original"
          /\ Len(engine_out) <= Len(variants)
          /\ \A i \in DOMAIN engine_out :
                /\ engine_out[i].name = variants[i].name
                /\ engine_out[i].img = variants[i].img
          /\ (pc = "engine" /\ vi = 1) => result = NoResult
          /\ result.kind = "error" =>
                \/ engine_out # << >> /\ engine_out[Len(engine_out)].raised # ""
                \/ llm_calls > 0
          /\ ocr.kind = "ok" =>
                /\ NamesOf(engine_out) = ExpectedNames
                /\ DOMAIN ocr.raw.candidates = { ExpectedNames[i] : i \in DOMAIN ExpectedNames }
                /\ ocr.raw.selected_variant \in DOMAIN ocr.raw.candidates

\* the transpose and the light build raised: raw and binarized are evaluated
C3_Witness ==
    /\ ocr.kind = "ok"
    /\ ~build_ok.exif
    /\ ~build_ok.light
    /\ build_ok.binarized
    /\ NamesOf(engine_out) = << "raw", "binarized" >>
    /\ engine_out[2].img.base = "original"

\* the length between the first and the last character that is not whitespace
TrimmedLen(t) ==
    LET inked == { i \in DOMAIN t : ~isspace(t[i]) }
    IN  IF inked = {} THEN 0
        ELSE (CHOOSE i \in inked : \A j \in inked : j <= i)
             - (CHOOSE i \in inked : \A j \in inked : i <= j) + 1

\* C4: in every OCR response, candidates has exactly one entry per evaluated
\* variant, holding its score and trimmed length; selected_variant has an
\* entry whose score is the maximum of the recorded scores; the text is the
\* selected candidate's text, trimmed.
C4_DiagnosticMetadata ==
    ocr.kind = "ok" =>
        LET c == ocr.raw.candidates
            sel == ocr.raw.selected_variant
        IN  /\ DOMAIN c = { engine_out[i].name : i \in DOMAIN engine_out }
            /\ Cardinality(DOMAIN c) = Len(engine_out)
            /\ \A i \in DOMAIN engine_out :
                  LET t == engine_out[i].text
                  IN  /\ c[engine_out[i].name].score = ExpectedScore(t)
                      /\ c[engine_out[i].name].length = TrimmedLen(t)
            /\ sel \in DOMAIN c
            /\ \A n \in DOMAIN c : c[n].score <= c[sel].score
            /\ \E i \in DOMAIN engine_out :
                  /\ engine_out[i].name = sel
                  /\ ocr.text = strip(engine_out[i].text)

\* three candidates, the last one selected, and its text needed trimming
C4_Witness ==
    /\ ocr.kind = "ok"
    /\ Len(engine_out) = 3
    /\ ocr.raw.selected_variant = "binarized"
    /\ ocr.text # engine_out[3].text
    /\ ocr.raw.candidates["binarized"].length = 1
    /\ ocr.raw.candidates["raw"].length = 0
    /\ engine_out[1].text # << >>

IsEmptyInput(r) ==
    /\ r.kind = "error"
    /\ r.status = 400
    /\ r.detail \in { "Empty file", "Empty file: {filename}" }

\* C5: an upload with an empty byte buffer fails with the EmptyInput error
\* (HTTP 400, Empty file) whatever its content type and entry point, and
\* neither the OCR engine nor the LLM is invoked.
C5_EmptyUploadIsEmptyInput ==
    (pc = "done" /\ file.bytes = "") =>
        /\ IsEmptyInput(result)
        /\ engine_out = << >>
        /\ llm_calls = 0

\* C6: when _ocr_extract_text_from_image is called with an image content
\* type and non-empty bytes that Image.open rejects, it fails with HTTP 400
\* Invalid image; no variant is built and the engine is never invoked.
C6_UndecodableIsInvalidImage ==
    (ocr_file.bytes = "garbage" /\ startswith(OrEmpty(ocr_file.content_type), ImagePrefix)) =>
        /\ variants = << >>
        /\ engine_out = << >>
        /\ pc \notin {"build", "engine", "llm"}
        /\ pc = "done" =>
              /\ result.kind = "error"
              /\ result.status = 400
              /\ result.detail = "Invalid image"
              /\ decoded

\* undecodable bytes reach the OCR helper through _extract_text_from_upload
C6_Witness ==
    /\ pc = "done"
    /\ endpoint = "extract_upload"
    /\ file.content_type = CT_IMAGE_PNG
    /\ file.bytes = "garbage"
    /\ result.kind = "error"
    /\ result.detail = "Invalid image"

IsUnsupportedMediaType(r) ==
    /\ r.kind = "error"
    /\ r.status = 400
    /\ r.detail \in { "Only image uploads are supported", "Unsupported file type" }

\* C7 as stated: a non-empty upload whose declared content type does not
\* start with "image/" is rejected as unsupported by every entry point,
\* before the bytes are decoded and without an engine invocation.
C7_NonImagePrefixRejected ==
    (file.bytes # "" /\ ~startswith(OrEmpty(file.content_type), ImagePrefix)) =>
        /\ ~decoded
        /\ engine_out = << >>
        /\ pc = "done" => IsUnsupportedMediaType(result)

\* C7 amended: a non-empty upload whose declared content type, lower-cased,
\* does not start with "image/" (a missing content type included) is
\* rejected as unsupported (HTTP 400) by every entry point, before the bytes
\* are decoded and without an engine invocation.
C7_NonImageRejectedIgnoringCase ==
    (file.bytes # "" /\ ~startswith(lower(OrEmpty(file.content_type)), ImagePrefix)) =>
        /\ ~decoded
        /\ engine_out = << >>
        /\ pc \in {"upload", "ocr", "done"}
        /\ pc = "done" => IsUnsupportedMediaType(result)

\* a non-empty upload without content type is rejected by the OCR helper
C7_Witness ==
    /\ pc = "done"
    /\ endpoint = "ocr_pipeline"
    /\ file.content_type = NoneStr
    /\ file.bytes = "png"
    /\ result.kind = "error"
    /\ result.detail = "Only image uploads are supported"

\* the places _detect_tesseract_cmd looks at in environment e: the configured
\* command alone when it is set; else the PATH, and then every candidate
\* installation path when the PATH has no tesseract
SearchedLocations(e) ==
    IF Truthy(e.TESSERACT_CMD) THEN { e.TESSERACT_CMD }
    ELSE { << "PATH" >> }
         \cup (IF Truthy(e.which) THEN {}
               ELSE { Candidates(e)[i] : i \in DOMAIN Candidates(e) })

\* C8: when the engine executable is not found, the call fails with HTTP 500
\* and the message includes the locations that were searched.
C8_NotFoundListsSearchedLocations ==
    (engine_out # << >> /\ engine_out[Len(engine_out)].raised = "TesseractNotFoundError") =>
        /\ result.kind = "error"
        /\ result.status = 500
        /\ result.detail = "Tesseract executable not found"
        /\ SearchedLocations(env) \subseteq result.paths

\* C9: the discovery returns the configured TESSERACT_CMD when it is set
\* (non-empty), without looking whether it exists; else the executable on
\* the PATH; else the first existing Tesseract-OCR/tesseract.exe under the
\* usable roots in list order; and None exactly when all three find nothing.
C9_DetectOrder ==
    fn_pc = "imported" =>
        LET roots == << env.ProgramFiles, env.ProgramFilesX86,
                        << "C:\\Program Files" >>, << "C:\\Program Files (x86)" >> >>
            Hit(i) == /\ roots[i] \notin { NonePath, EmptyPath }
                      /\ (roots[i] \o << "Tesseract-OCR", "tesseract.exe" >>) \in env.existing
            cmdSet == env.TESSERACT_CMD \notin { NonePath, EmptyPath }
            onPath == env.which \notin { NonePath, EmptyPath }
        IN  /\ cmdSet => detected = env.TESSERACT_CMD
            /\ (~cmdSet /\ onPath) => detected = env.which
            /\ (~cmdSet /\ ~onPath) =>
                  \/ \E i \in 1..4 :
                        /\ Hit(i)
                        /\ \A j \in 1..(i - 1) : ~Hit(j)
                        /\ detected = roots[i] \o << "Tesseract-OCR", "tesseract.exe" >>
                  \/ /\ \A i \in 1..4 : ~Hit(i)
                     /\ detected = NonePath
            /\ detected = NonePath <=> (~cmdSet /\ ~onPath /\ \A i \in 1..4 : ~Hit(i))

\* nothing configured or on the PATH, %ProgramFiles% holds no tesseract, and
\* the one under C:\Program Files is returned although a later one exists
C9_Witness ==
    /\ fn_pc = "imported"
    /\ env.TESSERACT_CMD = EmptyPath
    /\ env.which = NonePath
    /\ env.ProgramFiles = EnvRoot
    /\ env.existing = { TesseractUnder(LiteralRoots[1]), TesseractUnder(LiteralRoots[2]) }
    /\ detected = << "C:\\Program Files", "Tesseract-OCR", "tesseract.exe" >>

\* C10: _normalize_cert_name is idempotent, and its result holds no
\* occurrence of a replaced pattern.
C10_NormalizeIdempotent ==
    fn_pc = "norm_done" =>
        /\ fn_out2 = fn_out
        /\ \A k \in DOMAIN replacements : ~Contains(fn_out, replacements[k][1])

\* a padded name with a misreading is trimmed and corrected, and stays as corrected
C10_Witness ==
    /\ fn_pc = "norm_done"
    /\ fn_arg = << Ch_space, Ch_san, Ch_yeop, Ch_space >>
    /\ fn_out = << Ch_san, Ch_eop >>
    /\ fn_out2 = << Ch_san, Ch_eop >>

----------------------------------------------------------------------------
\* whitespace only, or nothing at all
IsBlank(t) == \A i \in DOMAIN t : isspace(t[i])

\* C11: on None and on the empty string both normalizers return the empty
\* string, and _normalize_cert_name also does on a name made of whitespace
\* only; each call returns a string (none of them raises).
C11_EmptyInEmptyOut ==
    /\ (fn_pc \in {"blob_text", "blob_done"} /\ (fn_arg = NoneStr \/ IsBlank(fn_arg)))
          => fn_out = << >>
    /\ (fn_pc = "blob_done" /\ fn_arg \in { NoneStr, << >> })
          => fn_out2 = << >>
    /\ fn_pc = "blob_done" => (fn_out # NoneStr /\ fn_out2 # NoneStr)

\* both functions have returned on None
C11_Witness ==
    /\ fn_pc = "blob_done"
    /\ fn_arg = NoneStr
    /\ fn_out = << >>
    /\ fn_out2 = << >>

----------------------------------------------------------------------------
\* C19: when the engine raises on a built variant the OCR call fails with
\* HTTP 500 and hands no text to its caller, whatever the earlier variants
\* gave; the raising invocation is the last one (no later variant is
\* evaluated) and no chat completion follows.
C19_EngineErrorFailsWholeCall ==
    /\ \A i \in DOMAIN engine_out :
          engine_out[i].raised # "" =>
             /\ i = Len(engine_out)
             /\ i = vi
             /\ pc = "done"
             /\ result.kind = "error"
             /\ result.status = 500
             /\ ocr = NoResult
             /\ llm_calls = 0

\* the second of three variants raises after the first was recognized
C19_Witness ==
    /\ Len(variants) = 3
    /\ Len(engine_out) = 2
    /\ engine_out[1].raised = ""
    /\ engine_out[1].text = << HangulFirst >>
    /\ engine_out[2].raised = "Exception"
    /\ result.kind = "error"

----------------------------------------------------------------------------
\* a string with all its whitespace removed
Compact(s) == SelectSeq(s, LAMBDA ch : ~isspace(ch))

\* n is the name c with whitespace characters put between its characters
IsSpacedFormOf(n, c) ==
    /\ Compact(n) = c
    /\ ~isspace(n[1])
    /\ ~isspace(n[Len(n)])

\* a handler that asks for strict JSON has answered with a profile
Shaped == pc = "done" /\ endpoint \in JsonEndpoints /\ result.kind = "ok"

\* C12: a certification the model names by a canonical name with whitespace
\* between its characters, and for which it lists no subjects, is matched to
\* that canonical name and gets the taxonomy's subject list.
C12_SpacedNameGetsCanonicalSubjects ==
    Shaped =>
       \A i \in DOMAIN llm_reply.certs : \A k \in DOMAIN Taxonomy :
          ( /\ llm_reply.certs[i].subjects = << >>
            /\ IsSpacedFormOf(llm_reply.certs[i].name, Taxonomy[k].name) )
          => result.teachable_certifications[i].subjects = Taxonomy[k].subjects

----------------------------------------------------------------------------
\* a handler that asks for strict JSON got a reply and has finished
JsonReplied == pc = "done" /\ endpoint \in JsonEndpoints /\ llm_reply.outcome = "reply"

\* the request failed with HTTP 502 and the detail carries the reply
IsMalformedModelOutput(r, raw_text) ==
    /\ r.kind = "error"
    /\ r.status = 502
    /\ r.raw_text = raw_text

\* C13 as stated: a reply that is not a JSON object as a whole (no JSON at
\* all, or JSON of another type such as an array) fails with HTTP 502 whose
\* detail carries the raw text.
C13_NonObjectReplyRejected ==
    (JsonReplied /\ ~IsJsonObject(llm_reply.text))
       => IsMalformedModelOutput(result, llm_reply.text)

\* t is a JSON object, or the text from its first "{" to its last "}" is one
HoldsObject(t) ==
    \/ IsJsonObject(t)
    \/ \E i \in DOMAIN t, j \in DOMAIN t :
          /\ i < j
          /\ t[i] = "{" /\ \A k \in 1..(i - 1) : t[k] # "{"
          /\ t[j] = "}" /\ \A k \in (j + 1)..Len(t) : t[k] # "}"
          /\ IsJsonObject(SubSeq(t, i, j))

\* C13, amended: the request fails with HTTP 502 carrying the raw text
\* exactly when no JSON object can be read from the reply, neither as a whole
\* nor between its first "{" and its last "}"; otherwise the reply is accepted.
C13_RejectedIffNoObjectInside ==
    JsonReplied =>
       IF HoldsObject(llm_reply.text)
       THEN ~(result.kind = "error" /\ result.status = 502)
       ELSE IsMalformedModelOutput(result, llm_reply.text)

\* an array of scalars is refused with the raw text
C13_Witness ==
    /\ JsonReplied
    /\ llm_reply.text = << "[", "1", "]" >>
    /\ IsMalformedModelOutput(result, << "[", "1", "]" >>)

----------------------------------------------------------------------------
\* C14: a failed chat completion is surfaced by kind: a timeout as a
\* gateway-timeout error (504), an upstream error status and a connection
\* error as bad-gateway errors (502), so that the response of a timeout
\* differs from the other two.
C14_LlmFailureSurfacedByKind ==
    (pc = "done" /\ llm_reply.outcome \in LlmFailures) =>
       /\ result.kind = "error"
       /\ llm_reply.outcome = "timeout" => result.status = 504
       /\ llm_reply.outcome = "status_error" => result.status = 502
       /\ llm_reply.outcome = "connect_error" => result.status = 502

----------------------------------------------------------------------------
\* at most one chat completion, at most one engine invocation per built
\* variant and in their order, each upload read at most once; a failed call
\* has ended the request with an error
CalledOnce ==
    /\ llm_calls <= 1
    /\ Len(engine_out) <= Len(variants)
    /\ \A i \in DOMAIN engine_out : engine_out[i].name = variants[i].name
    /\ \A i \in DOMAIN ocr_done : ocr_done[i] = i
    /\ (engine_out # << >> /\ engine_out[Len(engine_out)].raised # "")
          => (pc = "done" /\ result.kind = "error")
    /\ llm_reply.outcome \in LlmFailures
          => (pc = "done" /\ result.kind = "error" /\ llm_calls = 1)

\* no engine invocation and no chat completion after a failure
NoCallAfterFailure ==
    result.kind = "error" => (engine_out' = engine_out /\ llm_calls' = llm_calls)

\* C15: nothing is retried: the chat completion is called at most once per
\* request and the engine at most once per built variant of each upload, and
\* once a call has failed the request ends with that failure and makes no
\* further outbound call.
C15_NoRetry == []CalledOnce /\ [][NoCallAfterFailure]_vars

\* both uploads were read, three variants of the last one were recognized,
\* and the single chat completion timed out
C15_Witness ==
    /\ endpoint \in CareerEndpoints
    /\ ocr_done = << 1, 2 >>
    /\ Len(engine_out) = 3
    /\ llm_calls = 1
    /\ llm_reply.outcome = "timeout"
    /\ pc = "done"
    /\ result.kind = "error"

----------------------------------------------------------------------------
\* C18: in the handlers that run OCR and then the chat completion, the
\* uploads are read in order (the insurance file, then the certificate files
\* as uploaded), the chat completion is called only after the text of every
\* upload was extracted, and a request whose OCR failed on some upload ends
\* with an error and without a chat completion.
C18_LlmOnlyAfterAllOcr ==
    /\ \A i \in DOMAIN ocr_done : ocr_done[i] = i
    /\ Len(ocr_done) <= Len(files)
    /\ pc \in { "upload", "ocr", "build", "engine" }
          => (file_idx = Len(ocr_done) + 1 /\ file = files[file_idx] /\ llm_calls = 0)
    /\ llm_calls > 0 => Len(ocr_done) = Len(files)
    /\ (pc = "done" /\ Len(ocr_done) < Len(files))
          => (result.kind = "error" /\ llm_calls = 0 /\ llm_reply = NoReply)

\* the insurance file and a certificate file were read, then the model answered
C18_Witness ==
    /\ endpoint \in CareerEndpoints
    /\ Len(files) = 2
    /\ ocr_done = << 1, 2 >>
    /\ insurance_text = << HangulFirst >>
    /\ llm_calls = 1
    /\ llm_reply.outcome = "reply"
    /\ result.kind = "ok"

----------------------------------------------------------------------------
----------------------------------------------------------------------------
\* s without its U+0020 characters
WithoutSpaces(s) == SelectSeq(s, LAMBDA ch : ch # Ch_space)

\* the entries of the table whose name, spaces removed, is that of the
\* normalized name n, spaces removed
MatchesOf(n) ==
    { k \in DOMAIN Taxonomy :
        WithoutSpaces(_normalize_cert_name(n)) = WithoutSpaces(Taxonomy[k].name) }

\* C20: the response lists the certifications of the reply, in order and
\* under the names the model gave; the subject list of one is replaced by
\* the table's list only if the model's list is empty and the normalized,
\* space-stripped name equals a space-stripped canonical name; a non-empty
\* list, and the list of a certification that matches no canonical name, is
\* the one the model gave.
C20_SubjectsReplacedOnlyIfEmptyAndKnown ==
    Shaped =>
       /\ Len(result.teachable_certifications) = Len(llm_reply.certs)
       /\ \A i \in DOMAIN llm_reply.certs :
             LET c == llm_reply.certs[i]
                 out == result.teachable_certifications[i]
             IN  /\ out.name = c.name
                 /\ IF c.subjects = << >> /\ MatchesOf(c.name) # {}
                    THEN \E k \in MatchesOf(c.name) : out.subjects = Taxonomy[k].subjects
                    ELSE out.subjects = c.subjects

\* of two certifications of one reply, the one without subjects got the
\* table's list and the one with a subject of the model kept it
C20_Witness ==
    /\ Shaped
    /\ Len(llm_reply.certs) = 2
    /\ llm_reply.certs[1].subjects = << >>
    /\ result.teachable_certifications[1].subjects = Taxonomy[6].subjects
    /\ llm_reply.certs[2].subjects # << >>
    /\ MatchesOf(llm_reply.certs[2].name) # {}
    /\ result.teachable_certifications[2].subjects = llm_reply.certs[2].subjects

----------------------------------------------------------------------------
\* the calls that have started with a name that compacts to the key of call c
SameKeyAs(c) ==
    { d \in Calls : infer_pc[d] # "idle" /\ Compact(infer_name[d]) = Compact(infer_name[c]) }

\* of two calls with names equal after compaction at most one issued a
\* prompt, and two that returned gave the same line
OneCallOneLine ==
    \A c \in Calls : \A d \in SameKeyAs(c) \ {c} :
       infer_pc[c] # "idle" =>
          /\ ~(infer_issued[c] /\ infer_issued[d])
          /\ (infer_pc[c] = "returned" /\ infer_pc[d] = "returned")
                => infer_line[c] = infer_line[d]

\* an entry of the cache stays as it is
EntriesKept == \A e \in infer_cache : e \in infer_cache'

\* C16 as stated: in any interleaving, calls with names equal after
\* compaction issue at most one prompt to the LLM and return the identical
\* line, and an entry of the cache is never changed or removed.
C16_AtMostOneLlmCallPerKey == []OneCallOneLine /\ [][EntriesKept]_vars

\* d had returned when c started, or the other way round
Sequential(c, d) == d \in infer_before[c] \/ c \in infer_before[d]

\* no two calls of S overlap
NoOverlap(S) == \A c \in S : \A d \in S \ {c} : Sequential(c, d)

\* C16, amended: a call that starts after a call with the same compacted
\* name has returned issues no prompt; when the calls for one compacted name
\* do not overlap, at most one of them issues a prompt and all return the
\* identical line; a key is never removed from the cache and has one entry.
C16_SequentialCallsShareOneLlmCall ==
    /\ \A c \in Calls : \A d \in SameKeyAs(c) \ {c} :
          (infer_pc[c] # "idle" /\ d \in infer_before[c]) => ~infer_issued[c]
    /\ \A c \in Calls :
          (infer_pc[c] # "idle" /\ NoOverlap(SameKeyAs(c)))
             => \A d \in SameKeyAs(c) \ {c} :
                   /\ ~(infer_issued[c] /\ infer_issued[d])
                   /\ (infer_pc[c] = "returned" /\ infer_pc[d] = "returned")
                         => infer_line[c] = infer_line[d]
    /\ \A c \in Calls :
          infer_pc[c] = "returned"
             => Cardinality({ e \in infer_cache : e.key = Compact(infer_name[c]) }) = 1

\* two calls, one after the other, with spellings that differ in a space:
\* the first asked the LLM, the second returned the cached line
C16_Witness ==
    /\ infer_name[1] = << HangulFirst, Ch_space, HangulLast >>
    /\ infer_name[2] = << HangulFirst, HangulLast >>
    /\ infer_pc[1] = "returned"
    /\ infer_pc[2] = "returned"
    /\ 1 \in infer_before[2]
    /\ infer_issued[1]
    /\ ~infer_issued[2]
    /\ infer_line[2] = infer_line[1]

----------------------------------------------------------------------------
\* one of the three dependent keywords stands in t once its spaces are
\* taken out (피부양자 follows from 직장피부양자, so two tests are enough)
HasDependentKeyword(t) ==
    LET u == IF t = NoneStr THEN << >> ELSE WithoutSpaces(t)
        pibuyangja == << 54588, 48512, 50577, 51088 >>
        jikjangpibuyang == << 51649, 51109, 54588, 48512, 50577 >>
    IN  \/ \E i \in 1..Len(u) : i + 3 <= Len(u) /\ SubSeq(u, i, i + 3) = pibuyangja
        \/ \E i \in 1..Len(u) : i + 4 <= Len(u) /\ SubSeq(u, i, i + 4) = jikjangpibuyang

\* C21: _is_dependent_mode returns True for a true-like flag and False for a
\* false-like flag whatever the insurance text is; for "auto", a missing
\* flag or a value that is no flag it returns True exactly when the
\* insurance text without its spaces contains a dependent keyword.
C21_DependentMode ==
    fn_pc = "is_dependent_done" =>
       fn_out = IF fn_arg.flag.means = "true" THEN "True"
                ELSE IF fn_arg.flag.means = "false" THEN "False"
                ELSE IF HasDependentKeyword(fn_arg.text) THEN "True"
                ELSE "False"

\* " ON " with a text that holds no keyword gives True
C21_Witness ==
    /\ fn_pc = "is_dependent_done"
    /\ fn_arg.flag.mode = << Ch_space, 79, 78, Ch_space >>
    /\ ~HasDependentKeyword(fn_arg.text)
    /\ fn_out = "True"

====
